---------------------------- MODULE Spec2Model ----------------------------
(***************************************************************************)
(* Model of the createTodos batch mutation handler                         *)
(* (amplify/data/createTodosHandler.ts): one Lambda invocation fans out    *)
(* one conditional PutItem per input todo, joins them with Promise.all and *)
(* returns the array of the todos whose write succeeded.                   *)
(***************************************************************************)
EXTENDS Integers, Sequences, FiniteSets, TLC

(* ----------------------------- bounds --------------------------------- *)
MaxLen == 2
NumIds == 2
MaxClock == 1
MaxInvocations == 2

(* ------------------------- values of the program ----------------------- *)
\* JavaScript undefined / null, as they appear in string-valued fields.
Undefined == "<undefined>"
Null == "<null>"

\* The value space randomUUID() draws from.
Ids == 1 .. NumIds

\* CreateTodosArgs.todos[i]: title is required, content is optional
\* (a request without the field models a missing content).
\* The four requests in a fixed order; a batch is a selection of at most
\* MaxLen of them, in that order.
RequestPool ==
  << [title |-> "A"],
     [title |-> "A", content |-> ""],
     [title |-> "B", content |-> Null],
     [title |-> "B", content |-> "c"] >>

RECURSIVE SubSeqAt(_, _, _)
SubSeqAt(s, keep, i) ==
  IF i > Len(s) THEN <<>>
  ELSE IF i \in keep THEN <<s[i]>> \o SubSeqAt(s, keep, i + 1)
  ELSE SubSeqAt(s, keep, i + 1)

Batches ==
  { SubSeqAt(RequestPool, keep, 1) :
      keep \in { k \in SUBSET (1 .. Len(RequestPool)) : Cardinality(k) <= MaxLen } }

\* event.identity: absent, or an AppSyncIdentity of which the handler reads
\* sub and resolverContext.issuer.
Identities ==
  { [kind |-> "none"],
    [kind |-> "identity", sub |-> Undefined, issuer |-> "cognito"],
    [kind |-> "identity", sub |-> Undefined, issuer |-> "apiKey"],
    [kind |-> "identity", sub |-> "", issuer |-> "apiKey"],
    [kind |-> "identity", sub |-> "u1", issuer |-> "cognito"] }

\* The events AppSync can hand to the handler: arguments.todos may be missing.
\* The handler reads the identity and the todos independently of each other,
\* so every identity comes with no todos, an empty batch and one full batch,
\* and every batch comes with the signed-in user.
SignedIn == [kind |-> "identity", sub |-> "u1", issuer |-> "cognito"]
FullBatch == SubSeqAt(RequestPool, { 1, Len(RequestPool) }, 1)
Events ==
  { [identity |-> idn] : idn \in Identities } \cup
  { [identity |-> idn, todos |-> b] : idn \in Identities, b \in { <<>>, FullBatch } } \cup
  { [identity |-> SignedIn, todos |-> b] : b \in Batches }

AuthError == "Authentication required to create todos."
BatchError == "Failed to create one or more todos."

\* An item that is in the table before the first invocation.
OldItem ==
  [id |-> 1, title |-> "old", content |-> Null, createdAt |-> 0, updatedAt |-> 0,
   typename |-> "Todo"]

\* An item that a concurrent invocation (of another caller) is writing.
ConcurrentItem ==
  [id |-> NumIds, title |-> "other", content |-> Null, createdAt |-> 0, updatedAt |-> 0,
   owner |-> "u2"]

(* ------------------------------ state ---------------------------------- *)
VARIABLES
  store,        \* the DynamoDB table: a function from the stored ids to items
  clock,        \* the wall clock read by new Date()
  pc,           \* position of the current invocation
  inv,          \* number of invocations made so far
  batch,        \* the requests of the caller's first invocation
  event,        \* the event of the current invocation
  todosInput,   \* event.arguments.todos
  owner,        \* identity?.sub
  now,          \* the timestamp taken at line 60
  newTodoItems, \* newTodoItem captured by the i-th promise's callbacks
  sendResult,   \* settlement of the i-th docClient.send(putCommand)
  putPromises,  \* state of the i-th element of putPromises
  createdTodos, \* the createdTodos array
  errorLog,     \* the inputs logged by console.error at line 93
  otherPuts,    \* writes in flight that the current invocation does not wait
                \* for: of a concurrent invocation, or of an aborted one
  result,       \* the value the handler returned
  thrown        \* the message of the error the handler threw

vars ==
  << store, clock, pc, inv, batch, event, todosInput, owner, now, newTodoItems,
     sendResult, putPromises, createdTodos, errorLog, otherPuts, result, thrown >>

(* --------------------------- pure helpers ------------------------------ *)
\* JavaScript truthiness of an optional string.
Truthy(s) == s # Undefined /\ s # Null /\ s # ""

\* identity?.sub
Sub(idn) == IF idn.kind = "none" THEN Undefined ELSE idn.sub

\* identity?.resolverContext?.issuer
Issuer(idn) == IF idn.kind = "none" THEN Undefined ELSE idn.issuer

\* !todosInput || todosInput.length === 0
EmptyInput(ev) == "todos" \notin DOMAIN ev \/ Len(ev.todos) = 0

\* !owner && identity?.resolverContext?.issuer !== 'apiKey'
AuthRequiredOnApiKey(idn) == ~Truthy(Sub(idn)) /\ Issuer(idn) = "apiKey"
AuthRequired(idn) == ~Truthy(Sub(idn)) /\ Issuer(idn) # "apiKey"

\* Lines 45-55: where the two checks before the loop send the invocation;
\* the emptiness check comes first.
EntryOutcomeAuthFirst(ev) ==
  IF AuthRequired(ev.identity) THEN "threw"
  ELSE IF EmptyInput(ev) THEN "returned"
  ELSE "loop"
EntryOutcome(ev) ==
  IF EmptyInput(ev) THEN "returned"
  ELSE IF AuthRequired(ev.identity) THEN "threw"
  ELSE "loop"

\* todoInput.content ?? null
NullishContentOr(todoInput) ==
  IF "content" \notin DOMAIN todoInput THEN Null
  ELSE IF todoInput.content \in { Undefined, Null, "" } THEN Null
  ELSE todoInput.content
NullishContent(todoInput) ==
  IF "content" \notin DOMAIN todoInput THEN Null
  ELSE IF todoInput.content = Undefined THEN Null
  ELSE todoInput.content

\* The timestamp an item is stamped with: the one taken before the loop.
ItemTimestampPerItem(batchNow, current) == current
ItemTimestamp(batchNow, current) == batchNow

\* newTodoItem of lines 64-73; the owner field is spread in only when truthy.
NewTodoItemOwnerAlways(todoId, todoInput, stamp, own) ==
  [id |-> todoId, title |-> todoInput.title, content |-> NullishContent(todoInput),
   createdAt |-> stamp, updatedAt |-> stamp, owner |-> own]
NewTodoItem(todoId, todoInput, stamp, own) ==
  IF Truthy(own)
  THEN [id |-> todoId, title |-> todoInput.title, content |-> NullishContent(todoInput),
        createdAt |-> stamp, updatedAt |-> stamp, owner |-> own]
  ELSE [id |-> todoId, title |-> todoInput.title, content |-> NullishContent(todoInput),
        createdAt |-> stamp, updatedAt |-> stamp]

\* itemWithTypename of line 77.
ItemWithTypename(item) ==
  IF "owner" \in DOMAIN item
  THEN [id |-> item.id, title |-> item.title, content |-> item.content,
        createdAt |-> item.createdAt, updatedAt |-> item.updatedAt,
        owner |-> item.owner, typename |-> "Todo"]
  ELSE [id |-> item.id, title |-> item.title, content |-> item.content,
        createdAt |-> item.createdAt, updatedAt |-> item.updatedAt,
        typename |-> "Todo"]

\* ConditionExpression: 'attribute_not_exists(id)' evaluated against the table.
AttributeNotExistsOff(st, id) == TRUE
AttributeNotExists(st, id) == id \notin DOMAIN st

\* docClient.send(new PutCommand(...)): the table after the call and how the
\* call settles.  fault: the store rejects the call for a reason other than
\* the condition (unreachable, throttled, validation).
PutItem(st, item, fault) ==
  IF fault THEN [store |-> st, result |-> "error"]
  ELSE IF ~AttributeNotExists(st, item.id) THEN [store |-> st, result |-> "conflict"]
  ELSE [store |-> [x \in DOMAIN st \cup { item.id } |->
                     IF x = item.id THEN ItemWithTypename(item) ELSE st[x]],
        result |-> "ok"]

\* State of send(...).then(push).catch(log): the catch handler returns
\* normally, so the chained promise fulfils whatever send did.
ChainOutcomeRethrow(sent) == IF sent = "ok" THEN "fulfilled" ELSE "rejected"
ChainOutcome(sent) == "fulfilled"

\* Line 62: the for-of loop ends after the last element of todosInput, and
\* nothing in its body leaves it earlier.
LoopDoneAfterFirst(i, n) == TRUE
LoopDone(i, n) == i = n

\* Line 89: the then callback pushes the created item.
ThenCallbackDrop(created, item) == created
ThenCallbackTwice(created, item) == Append(Append(created, item), item)
ThenCallback(created, item) == Append(created, item)

\* Line 93: the catch callback logs the input of the rejected write.
CatchCallbackSilent(log, todoInput) == log
CatchCallback(log, todoInput) == Append(log, todoInput)

\* Line 104: the handler returns the createdTodos array and nothing else;
\* the returned value has no failure entries.
ReturnedFailures == <<>>

\* State of Promise.all(ps).
PromiseRace(ps) ==
  IF \E i \in 1 .. Len(ps) : ps[i] = "rejected" THEN "rejected"
  ELSE IF \E i \in 1 .. Len(ps) : ps[i] = "fulfilled" THEN "fulfilled"
  ELSE "pending"
PromiseAll(ps) ==
  IF \E i \in 1 .. Len(ps) : ps[i] = "rejected" THEN "rejected"
  ELSE IF \A i \in 1 .. Len(ps) : ps[i] = "fulfilled" THEN "fulfilled"
  ELSE "pending"

\* Positions of the current input whose write was rejected.
FailedIdx == { i \in 1 .. Len(sendResult) : sendResult[i] \in { "conflict", "error" } }

\* What a caller re-submits: the whole batch when the invocation was aborted
\* (completion unknown), otherwise the requests whose write failed.
RetryInput ==
  IF pc = "aborted" THEN todosInput ELSE SubSeqAt(todosInput, FailedIdx, 1)

\* The ids randomUUID() can return, up to renaming of the ids that nothing
\* refers to yet: any id in use (a collision), or the least unused one.
UsedIds ==
  DOMAIN store \cup { newTodoItems[i].id : i \in 1 .. Len(newTodoItems) }
               \cup { w.id : w \in otherPuts }

RandomUUID ==
  UsedIds \cup { x \in Ids \ UsedIds : \A y \in Ids \ UsedIds : x <= y }

(* ------------------------------ Init ----------------------------------- *)
Init ==
  /\ store \in { <<>>, [x \in { 1 } |-> OldItem] }
  /\ clock = 0
  /\ pc = "idle"
  /\ inv = 0
  /\ batch = <<>>
  /\ event = [identity |-> [kind |-> "none"]]
  /\ todosInput = <<>>
  /\ owner = Undefined
  /\ now = 0
  /\ newTodoItems = <<>>
  /\ sendResult = <<>>
  /\ putPromises = <<>>
  /\ createdTodos = <<>>
  /\ errorLog = <<>>
  /\ otherPuts \in { {}, { ConcurrentItem } }
  /\ result = <<>>
  /\ thrown = ""

(* ----------------------------- actions --------------------------------- *)
\* Lines 38-60: the handler up to the loop, on event ev.
HandlerEntry(ev) ==
  /\ event' = ev
  /\ todosInput' = IF "todos" \in DOMAIN ev THEN ev.todos ELSE <<>>
  /\ owner' = Sub(ev.identity)
  /\ newTodoItems' = <<>>
  /\ sendResult' = <<>>
  /\ putPromises' = <<>>
  /\ createdTodos' = <<>>
  /\ errorLog' = <<>>
  /\ result' = <<>>
  /\ thrown' = IF EntryOutcome(ev) = "threw" THEN AuthError ELSE ""
  /\ pc' = EntryOutcome(ev)
  /\ now' = clock
  /\ UNCHANGED << store, clock, otherPuts >>

\* The caller's first call of the mutation.
Invoke ==
  /\ pc = "idle"
  /\ \E ev \in Events :
       /\ HandlerEntry(ev)
       /\ batch' = IF "todos" \in DOMAIN ev THEN ev.todos ELSE <<>>
  /\ inv' = inv + 1

\* The caller calls the mutation again for requests of the previous call.
Retry ==
  /\ pc \in { "returned", "aborted" }
  /\ inv < MaxInvocations
  /\ RetryInput # <<>>
  /\ HandlerEntry([identity |-> event.identity, todos |-> RetryInput])
  /\ inv' = inv + 1
  /\ UNCHANGED batch

\* Lines 62-98: one iteration of the loop; leaving the loop after the last.
IssuePut ==
  /\ pc = "loop"
  /\ LET i == Len(putPromises) + 1
     IN  \E todoId \in RandomUUID :
           /\ newTodoItems' =
                Append(newTodoItems,
                       NewTodoItem(todoId, todosInput[i], ItemTimestamp(now, clock), owner))
           /\ sendResult' = Append(sendResult, "pending")
           /\ putPromises' = Append(putPromises, "pending")
           /\ pc' = IF LoopDone(i, Len(todosInput)) THEN "await" ELSE "loop"
  /\ UNCHANGED << store, clock, inv, batch, event, todosInput, owner, now,
                  createdTodos, errorLog, otherPuts, result, thrown >>

\* Lines 88-96: the send of item i settles and its then/catch callback runs.
SendSettles(i) ==
  /\ pc = "await"
  /\ i \in 1 .. Len(sendResult)
  /\ sendResult[i] = "pending"
  /\ \E fault \in BOOLEAN :
       LET put == PutItem(store, newTodoItems[i], fault)
       IN  /\ store' = put.store
           /\ sendResult' = [sendResult EXCEPT ![i] = put.result]
           /\ putPromises' = [putPromises EXCEPT ![i] = ChainOutcome(put.result)]
           /\ createdTodos' = IF put.result = "ok"
                              THEN ThenCallback(createdTodos, newTodoItems[i])
                              ELSE createdTodos
           /\ errorLog' = IF put.result = "ok"
                          THEN errorLog
                          ELSE CatchCallback(errorLog, todosInput[i])
  /\ UNCHANGED << clock, pc, inv, batch, event, todosInput, owner, now,
                  newTodoItems, otherPuts, result, thrown >>

\* Lines 100-109: await Promise.all(putPromises) resumes.
AwaitAll ==
  /\ pc = "await"
  /\ PromiseAll(putPromises) # "pending"
  /\ pc' = IF PromiseAll(putPromises) = "fulfilled" THEN "returned" ELSE "threw"
  /\ result' = IF PromiseAll(putPromises) = "fulfilled" THEN createdTodos ELSE <<>>
  /\ thrown' = IF PromiseAll(putPromises) = "fulfilled" THEN "" ELSE BatchError
  /\ UNCHANGED << store, clock, inv, batch, event, todosInput, owner, now,
                  newTodoItems, sendResult, putPromises, createdTodos, errorLog,
                  otherPuts >>

\* The execution environment aborts the invocation while it is suspended:
\* its local variables are gone, the writes that have not settled stay in
\* flight.
Timeout ==
  /\ pc = "await"
  /\ pc' = "aborted"
  /\ otherPuts' = otherPuts \cup
       { newTodoItems[i] : i \in { j \in 1 .. Len(sendResult) : sendResult[j] = "pending" } }
  /\ newTodoItems' = <<>>
  /\ sendResult' = <<>>
  /\ putPromises' = <<>>
  /\ createdTodos' = <<>>
  /\ UNCHANGED << store, clock, inv, batch, event, todosInput, owner, now, errorLog,
                  result, thrown >>

\* A write of a concurrent or an aborted invocation reaches the table; the
\* current invocation does not hear of it.  (One that the store rejects for
\* a fault changes nothing, like one that never arrives.)
OtherPutSettles ==
  /\ \E w \in otherPuts :
       /\ store' = PutItem(store, w, FALSE).store
       /\ otherPuts' = otherPuts \ { w }
  /\ UNCHANGED << clock, pc, inv, batch, event, todosInput, owner, now,
                  newTodoItems, sendResult, putPromises, createdTodos, errorLog,
                  result, thrown >>

\* Time passes.  The clock is read at line 60 and nowhere after the loop,
\* so only the ticks that fall before and during the loop are modelled.
Tick ==
  /\ clock < MaxClock
  /\ pc = "loop"
  /\ clock' = clock + 1
  /\ UNCHANGED << store, pc, inv, batch, event, todosInput, owner, now,
                  newTodoItems, sendResult, putPromises, createdTodos, errorLog,
                  otherPuts, result, thrown >>

Settle == \E i \in 1 .. MaxLen : SendSettles(i)

\* One invocation of the handler, run to its end, next to the writes of a
\* concurrent one.
Next ==
  \/ Invoke
  \/ IssuePut
  \/ Settle
  \/ AwaitAll
  \/ OtherPutSettles
  \/ Tick

Spec == Init /\ [][Next]_vars

\* Invocations that may be aborted, and the caller's retries (all within one
\* tick of the clock).
NextRetry ==
  \/ Invoke
  \/ IssuePut
  \/ Settle
  \/ AwaitAll
  \/ Timeout
  \/ OtherPutSettles
  \/ Retry

SpecRetry == Init /\ [][NextRetry]_vars

(* ------------------------- properties ---------------------------------- *)
\* Every request of the current input has had its write issued and settled.
AllSettled ==
  /\ Len(sendResult) = Len(todosInput)
  /\ \A i \in 1 .. Len(sendResult) : sendResult[i] # "pending"

\* Exactly the write of position k met a conflict; all the others succeeded.
OneConflictAt(k) ==
  /\ Len(sendResult) = Len(todosInput)
  /\ k \in 1 .. Len(sendResult)
  /\ sendResult[k] = "conflict"
  /\ \A j \in 1 .. Len(sendResult) : j # k => sendResult[j] = "ok"

\* The caller has no subject identifier and did not come through the apiKey
\* issuer.
NoSubjectNoApiKey ==
  /\ Sub(event.identity) \in { Undefined, Null, "" }
  /\ Issuer(event.identity) # "apiKey"

\* The requests sequence of the current event is missing or empty.
NoRequests == "todos" \notin DOMAIN event \/ event.todos = <<>>

\* No PutCommand has been sent by the current invocation.
NoWriteIssued == newTodoItems = <<>> /\ sendResult = <<>> /\ putPromises = <<>>

C3_Original ==
  (pc # "idle" /\ NoSubjectNoApiKey) =>
    pc = "threw" /\ thrown = AuthError /\ NoWriteIssued

\* C3, amended: for every non-empty requests sequence, a call without a
\* subject and not through the apiKey issuer throws the authentication error
\* and issues no write (with a missing or empty sequence it returns the empty
\* array, also without a write).
C3_NonEmptyUnauthenticated ==
  (pc # "idle" /\ NoSubjectNoApiKey) =>
    /\ NoWriteIssued
    /\ ~NoRequests => pc = "threw" /\ thrown = AuthError
    /\ NoRequests => pc = "returned" /\ result = <<>>

C3_Witness ==
  /\ pc = "threw"
  /\ thrown = AuthError
  /\ event.identity.kind = "identity"
  /\ NoSubjectNoApiKey
  /\ Len(todosInput) = 2

\* C4: a call with an empty or missing requests sequence returns the empty
\* array and issues no write, whatever the caller identity is.
C4_EmptyInput ==
  (pc # "idle" /\ NoRequests) =>
    pc = "returned" /\ result = <<>> /\ thrown = "" /\ NoWriteIssued

C4_Witness ==
  pc = "returned" /\ "todos" \in DOMAIN event /\ event.todos = <<>> /\ NoSubjectNoApiKey

\* C5: once the identity check has passed the handler never ends with an
\* error because some but not all of its writes failed: the only error it
\* ends with is the authentication error (or an error after every write
\* failed), and with a part of the writes failed the join fulfils.
C5_NoErrorOnPartialFailure ==
  /\ pc = "threw" =>
       \/ thrown = AuthError /\ NoWriteIssued
       \/ sendResult # <<>> /\ FailedIdx = 1 .. Len(sendResult)
  /\ (pc = "await" /\ AllSettled /\ FailedIdx # {} /\ FailedIdx # 1 .. Len(sendResult)) =>
       PromiseAll(putPromises) = "fulfilled"
  /\ (pc = "returned" /\ FailedIdx # {}) => thrown = ""

C5_Witness ==
  /\ pc = "returned"
  /\ Len(todosInput) = 2
  /\ sendResult[1] = "error"
  /\ sendResult[2] = "ok"
  /\ Len(result) = 1

\* C6 as stated: when the store rejects every write of a non-empty batch as
\* unreachable, the handler ends with an error and returns no result.
C6_Original ==
  (Len(todosInput) > 0 /\ AllSettled /\ \A i \in 1 .. Len(sendResult) : sendResult[i] = "error")
    => pc # "returned"

\* C7: the handler returns only when every write it issued has settled; it
\* does not return after the first completion or the first failure.
C7_JoinAll ==
  (pc = "returned" /\ ~NoRequests) => AllSettled

C7_Witness ==
  /\ pc = "returned"
  /\ Len(todosInput) = 2
  /\ AllSettled
  /\ errorLog # <<>>
  /\ result # <<>>

\* C10: all records one invocation produces carry one instant: any two of
\* them have equal createdAt and updatedAt, whenever their writes are issued
\* or complete.
C10_SameInstant ==
  /\ \A i, j \in 1 .. Len(newTodoItems) :
       /\ newTodoItems[i].createdAt = newTodoItems[i].updatedAt
       /\ newTodoItems[i].createdAt = newTodoItems[j].createdAt
  /\ \A i, j \in 1 .. Len(result) :
       /\ result[i].createdAt = result[i].updatedAt
       /\ result[i].createdAt = result[j].updatedAt
  /\ \A i \in 1 .. Len(result) : store[result[i].id].createdAt = result[1].updatedAt

C10_Witness ==
  pc = "returned" /\ Len(result) = 2 /\ clock > now /\ result[1].id # result[2].id

\* The stored records that were written for request r.
RecordsOf(r) ==
  { x \in DOMAIN store :
      store[x].title = r.title /\ store[x].content = NullishContent(r) }

\* How often request r occurs in the caller's batch.
Occurrences(r) == Cardinality({ i \in 1 .. Len(batch) : batch[i] = r })

\* C8 as stated: re-invoking for requests of an earlier invocation creates
\* the records that were never persisted and never leaves a second stored
\* record for a request whose record was already created.
C8_Original ==
  /\ \A p \in 1 .. Len(RequestPool) :
       Cardinality(RecordsOf(RequestPool[p])) <= Occurrences(RequestPool[p])
  /\ (inv >= 2 /\ pc = "returned" /\ FailedIdx = {}) =>
       \A i \in 1 .. Len(todosInput) : RecordsOf(todosInput[i]) # {}

\* One step leaves every stored item as it is, and a write that settles on
\* an identifier already in the table settles as a failure of that item
\* only.
CreateOnceStep ==
  /\ \A x \in DOMAIN store : x \in DOMAIN store' /\ store'[x] = store[x]
  /\ \A i \in 1 .. Len(sendResult) :
       ( /\ pc = "await"
         /\ pc' = "await"
         /\ sendResult[i] = "pending"
         /\ sendResult'[i] # "pending"
         /\ newTodoItems[i].id \in DOMAIN store )
       => /\ sendResult'[i] \in { "conflict", "error" }
          /\ putPromises'[i] = "fulfilled"
          /\ createdTodos' = createdTodos
          /\ Len(errorLog') = Len(errorLog) + 1
          /\ \A j \in 1 .. Len(sendResult) : j # i => sendResult'[j] = sendResult[j]

\* C9: a record is created once and never changed: in every interleaving a
\* conditional write to an identifier that is already in the table (there
\* from the start, or written by another item of the same or of a concurrent
\* batch) fails as a failure of that item and leaves the stored item as it
\* is, so at most one write per identifier succeeds.
C9_CreateOnce == [][CreateOnceStep]_vars

\* A write of the handler has met the record that the write of a concurrent
\* invocation left under the same identifier, and that record is intact.
C9_Witness ==
  /\ pc = "returned"
  /\ \E i \in 1 .. Len(sendResult) :
       /\ sendResult[i] = "conflict"
       /\ newTodoItems[i].id \in DOMAIN store
       /\ store[newTodoItems[i].id] = ItemWithTypename(ConcurrentItem)

\* The write issued for position i is the write of the i-th request.
WriteOfRequest(i) ==
  /\ newTodoItems[i].title = todosInput[i].title
  /\ sendResult[i] \in { "pending", "ok", "conflict", "error" }
  /\ putPromises[i] \in { "pending", "fulfilled" }

\* C11: once the identity check has passed on a non-empty batch, every
\* request has exactly one conditional write issued for it, whatever becomes
\* of the writes of the other items: from the end of the loop on there is
\* one write per position, and a write that failed leaves the others issued.
C11_EveryItemAttempted ==
  (pc \in { "await", "returned" } /\ ~NoRequests) =>
    /\ Len(newTodoItems) = Len(todosInput)
    /\ Len(sendResult) = Len(todosInput)
    /\ Len(putPromises) = Len(todosInput)
    /\ \A i \in 1 .. Len(todosInput) : WriteOfRequest(i)
    /\ pc = "returned" => Len(result) + Cardinality(FailedIdx) = Len(todosInput)

C11_Witness ==
  /\ pc = "returned"
  /\ Len(todosInput) = 2
  /\ Len(newTodoItems) = 2
  /\ sendResult[1] = "conflict"
  /\ sendResult[2] = "ok"

\* The content of request r is missing or null.
ContentAbsent(r) == "content" \notin DOMAIN r \/ r.content \in { Undefined, Null }

\* The content of request r is the empty string.
ContentEmpty(r) == "content" \in DOMAIN r /\ r.content = ""

\* The record written for position i, and its stored copy once the write
\* has succeeded, have the content field with value c.
ContentIs(i, c) ==
  /\ "content" \in DOMAIN newTodoItems[i]
  /\ newTodoItems[i].content = c
  /\ sendResult[i] = "ok" =>
       /\ "content" \in DOMAIN store[newTodoItems[i].id]
       /\ store[newTodoItems[i].id].content = c
       /\ \E r \in 1 .. Len(createdTodos) :
            createdTodos[r] = newTodoItems[i] /\ createdTodos[r].content = c

\* C12 as stated: the content of the written and returned record is null
\* whenever the content of the request is missing, null or the empty string,
\* and the content of the request otherwise; the field is never omitted.
C12_Original ==
  \A i \in 1 .. Len(newTodoItems) :
    IF ContentAbsent(todosInput[i]) \/ ContentEmpty(todosInput[i])
    THEN ContentIs(i, Null)
    ELSE ContentIs(i, todosInput[i].content)

\* C12, amended: the content of the written and returned record is null
\* whenever the content of the request is missing or null, and the content
\* of the request otherwise, the empty string included (an empty string is
\* written as the empty string); the field is never omitted.
C12_NullishContent ==
  \A i \in 1 .. Len(newTodoItems) :
    IF ContentAbsent(todosInput[i])
    THEN ContentIs(i, Null)
    ELSE ContentIs(i, todosInput[i].content)

C12_Witness ==
  /\ pc = "returned"
  /\ Len(todosInput) = 2
  /\ ContentAbsent(todosInput[1])
  /\ ContentEmpty(todosInput[2])
  /\ sendResult[1] = "ok"
  /\ sendResult[2] = "ok"
  /\ store[newTodoItems[1].id].content = Null
  /\ store[newTodoItems[2].id].content = ""

\* The caller identity has a (non-empty) subject identifier.
HasSubject ==
  /\ event.identity.kind = "identity"
  /\ event.identity.sub \notin { Undefined, Null, "" }

\* Record rec has an owner exactly when the caller has a subject, and then
\* the owner is that subject.
OwnerFromIdentity(rec) ==
  IF HasSubject
  THEN "owner" \in DOMAIN rec /\ rec.owner = event.identity.sub
  ELSE "owner" \notin DOMAIN rec

\* C13: every record the handler writes has an owner exactly when the
\* caller identity has a subject identifier, and the owner is that subject;
\* on the apiKey issuer path without a subject the records have no owner;
\* the owner depends on nothing of the request.
C13_OwnerFromIdentity ==
  \A i \in 1 .. Len(newTodoItems) :
    /\ OwnerFromIdentity(newTodoItems[i])
    /\ OwnerFromIdentity(ItemWithTypename(newTodoItems[i]))
    /\ sendResult[i] = "ok" => OwnerFromIdentity(store[newTodoItems[i].id])
    /\ \A j \in 1 .. Len(newTodoItems) :
         ("owner" \in DOMAIN newTodoItems[i]) = ("owner" \in DOMAIN newTodoItems[j])

C13_Witness ==
  /\ pc = "returned"
  /\ event.identity.kind = "identity"
  /\ event.identity.issuer = "apiKey"
  /\ ~HasSubject
  /\ Len(result) = 2
  /\ "owner" \notin DOMAIN store[result[1].id]
  /\ "owner" \notin DOMAIN store[result[2].id]

\* Positions of the current input whose write succeeded.
SucceededIdx == { i \in 1 .. Len(sendResult) : sendResult[i] = "ok" }

\* C14: when the handler returns normally, the returned records are exactly
\* the records whose conditional write succeeded in this invocation: every
\* returned record is in the table with the same id, title and content,
\* every record the invocation persisted is returned, and none is returned
\* twice, in every order of write completions.
C14_ReturnedAreCreated ==
  (pc = "returned" /\ ~NoRequests) =>
    /\ \A r \in 1 .. Len(result) :
         /\ result[r].id \in DOMAIN store
         /\ store[result[r].id].id = result[r].id
         /\ store[result[r].id].title = result[r].title
         /\ store[result[r].id].content = result[r].content
         /\ \E i \in SucceededIdx : newTodoItems[i] = result[r]
    /\ \A i \in SucceededIdx : \E r \in 1 .. Len(result) : result[r] = newTodoItems[i]
    /\ \A r1, r2 \in 1 .. Len(result) : r1 # r2 => result[r1].id # result[r2].id
    /\ Len(result) = Cardinality(SucceededIdx)

\* Both writes succeeded and the second completed first.
C14_Witness ==
  /\ pc = "returned"
  /\ Len(todosInput) = 2
  /\ Len(result) = 2
  /\ result[1] = newTodoItems[2]
  /\ result[2] = newTodoItems[1]
  /\ store[result[1].id].title = todosInput[2].title

=============================================================================
